---- MODULE Spec2Model ----
(***************************************************************************)
(* Series-key codec of tsdb/series/series_file.go: AppendSeriesKey,        *)
(* ParseSeriesKey(Tags), CompareSeriesKeys, GenerateSeriesKeys and the     *)
(* size calculators.                                                       *)
(*                                                                         *)
(* A Go []byte is kept run-length encoded: a sequence of runs              *)
(* [b |-> byte, n |-> count], adjacent runs holding different bytes and    *)
(* every count positive, so that equal byte strings are equal values and   *)
(* a field of 65535 or 65536 bytes is one run.  A models.Tags value is     *)
(* kept the same way: a sequence of [Key, Value, n], n consecutive tags    *)
(* with that key and value.                                                *)
(***************************************************************************)
EXTENDS Integers, Sequences, FiniteSets, TLC

\* ------------------------------------------------------------------ bytes

\* The range of a uint16: uint16(v) is v modulo Uint16Mod.
Uint16Mod == 65536

ByteMod == 256

\* b repeated n times.
Run(b, n) == IF n = 0 THEN << >> ELSE << [b |-> b, n |-> n] >>

\* make([]byte, n): n zero bytes.
Zeros(n) == Run(0, n)

\* x followed by y.
Cat(x, y) ==
  IF x = << >> THEN y
  ELSE IF y = << >> THEN x
  ELSE IF x[Len(x)].b = y[1].b
       THEN SubSeq(x, 1, Len(x) - 1)
              \o << [b |-> y[1].b, n |-> x[Len(x)].n + y[1].n] >>
              \o Tail(y)
       ELSE x \o y

\* len(x): the bytes of the runs from run i on.
RECURSIVE BLenFrom(_, _)
BLenFrom(x, i) == IF i > Len(x) THEN 0 ELSE x[i].n + BLenFrom(x, i + 1)

BLen(x) == BLenFrom(x, 1)

\* The run of x holding the byte p bytes after the start of run i, and the
\* offset of that byte in its run; run Len(x)+1 when x is too short.
RECURSIVE Seek(_, _, _)
Seek(x, i, p) ==
  IF i > Len(x) \/ p < x[i].n THEN [i |-> i, p |-> p]
  ELSE Seek(x, i + 1, p - x[i].n)

\* x[k:]
Drop(x, k) ==
  LET s == Seek(x, 1, k)
  IN  IF s.i > Len(x) THEN << >>
      ELSE IF s.p = 0 THEN SubSeq(x, s.i, Len(x))
      ELSE << [b |-> x[s.i].b, n |-> x[s.i].n - s.p] >>
             \o SubSeq(x, s.i + 1, Len(x))

\* x[:k]
Take(x, k) ==
  LET s == Seek(x, 1, k)
  IN  IF s.i > Len(x) THEN x
      ELSE IF s.p = 0 THEN SubSeq(x, 1, s.i - 1)
      ELSE Append(SubSeq(x, 1, s.i - 1), [b |-> x[s.i].b, n |-> s.p])

\* x[from:to]
Sub(x, from, to) == Take(Drop(x, from), to - from)

\* x[p]
At(x, p) == x[Seek(x, 1, p).i].b

\* copy(x[p:p+len(src)], src)
Copy(x, p, src) ==
  Cat(Cat(Take(x, p), src), Drop(x, p + BLen(src)))

\* x repeated n times.
RECURSIVE Rep(_, _)
Rep(x, n) ==
  IF n = 0 \/ x = << >> THEN << >>
  ELSE IF Len(x) = 1 THEN Run(x[1].b, x[1].n * n)
  ELSE Cat(x, Rep(x, n - 1))

\* The byte string of a sequence of byte values.
RECURSIVE Str(_)
Str(s) == IF s = << >> THEN << >> ELSE Cat(Run(s[1], 1), Str(Tail(s)))

\* bytes.Compare of x from run i on, of which rx bytes are left, with y from
\* run j on, of which ry bytes are left.
RECURSIVE CompareFrom(_, _, _, _, _, _)
CompareFrom(x, y, i, j, rx, ry) ==
  IF i > Len(x) /\ j > Len(y) THEN 0
  ELSE IF i > Len(x) THEN -1
  ELSE IF j > Len(y) THEN 1
  ELSE IF x[i].b # y[j].b THEN (IF x[i].b < y[j].b THEN -1 ELSE 1)
  ELSE IF rx = ry
       THEN CompareFrom(x, y, i + 1, j + 1,
                        IF i < Len(x) THEN x[i + 1].n ELSE 0,
                        IF j < Len(y) THEN y[j + 1].n ELSE 0)
  ELSE IF rx < ry
       THEN CompareFrom(x, y, i + 1, j,
                        IF i < Len(x) THEN x[i + 1].n ELSE 0, ry - rx)
       ELSE CompareFrom(x, y, i, j + 1,
                        rx - ry, IF j < Len(y) THEN y[j + 1].n ELSE 0)

\* bytes.Compare(x, y): -1, 0 or 1 by lexicographic byte order.
BytesCompare(x, y) ==
  CompareFrom(x, y, 1, 1,
              IF x = << >> THEN 0 ELSE x[1].n,
              IF y = << >> THEN 0 ELSE y[1].n)

\* binary.BigEndian.PutUint16(b[p:], v)
PutUint16(b, p, v) ==
  Copy(b, p, Cat(Run(v \div ByteMod, 1), Run(v % ByteMod, 1)))

\* int(binary.BigEndian.Uint16(b[p:]))
GetUint16(b, p) == At(b, p) * ByteMod + At(b, p + 1)

\* uint16(v) of an int v
ToUint16(v) == v % Uint16Mod

\* ------------------------------------------------------------------- tags

\* len(tags)
RECURSIVE TagCount(_)
TagCount(tags) == IF tags = << >> THEN 0 ELSE tags[1].n + TagCount(Tail(tags))

\* One tag.
Tag(k, v) == [Key |-> k, Value |-> v, n |-> 1]

\* tags followed by one more tag (key, value).
AddTag(tags, k, v) ==
  IF tags # << >> /\ tags[Len(tags)].Key = k /\ tags[Len(tags)].Value = v
  THEN SubSeq(tags, 1, Len(tags) - 1)
         \o << [Key |-> k, Value |-> v, n |-> tags[Len(tags)].n + 1] >>
  ELSE tags \o << Tag(k, v) >>

\* ------------------------------------------------------------------ sizes

SeriesKeyOffsetsSize(tagsN) == 2 + 2 * 2 * tagsN

RECURSIVE SeriesKeyBytesSize(_, _)
SeriesKeyBytesSize(name, tags) ==
  IF tags = << >> THEN BLen(name)
  ELSE SeriesKeyBytesSize(name, Tail(tags))
         + tags[1].n * (BLen(tags[1].Key) + BLen(tags[1].Value))

\* SeriesKeySize without the 4 bytes of the two size headers.
SeriesKeySize_NoHeaders(name, tags) ==
  SeriesKeyOffsetsSize(TagCount(tags)) + SeriesKeyBytesSize(name, tags)

SeriesKeySize(name, tags) ==
  SeriesKeyOffsetsSize(TagCount(tags)) + SeriesKeyBytesSize(name, tags) + 4

\* ---------------------------------------------------------------- encoder

\* A []byte value: nil, or a backing array arr (cap(dst) = len(arr)) of which
\* the first len bytes are the slice; the bytes past len are its spare
\* capacity.
NilSlice == [nil |-> TRUE, arr |-> << >>, len |-> 0]

\* make([]byte, n, c)
MakeSlice(n, c) == [nil |-> FALSE, arr |-> Zeros(c), len |-> n]

\* cap(s)
Cap(s) == BLen(s.arr)

\* The bytes of s: s[0:len(s)].
Bytes(s) == Take(s.arr, s.len)

\* The loop of AppendSeriesKey over tags, on the array a: the lengths of each
\* tag go to opos, its key and value bytes to bpos.  A group of n equal tags
\* is n passes of the loop body.
RECURSIVE PutTags(_, _, _, _)
PutTags(a, opos, bpos, tags) ==
  IF tags = << >> THEN a
  ELSE LET tag  == tags[1]
           klen == BLen(tag.Key)
           vlen == BLen(tag.Value)
           lens == PutUint16(PutUint16(Zeros(4), 0, ToUint16(klen)),
                             2, ToUint16(vlen))
           a1   == Copy(a, opos, Rep(lens, tag.n))
           a2   == Copy(a1, bpos, Rep(Cat(tag.Key, tag.Value), tag.n))
       IN  PutTags(a2, opos + 4 * tag.n, bpos + tag.n * (klen + vlen),
                   Tail(tags))

\* Whether AppendSeriesKey(dst, name, tags) allocates a new backing array.
AppendAllocates(dst, name, tags) ==
  LET size == SeriesKeyOffsetsSize(TagCount(tags))
                + SeriesKeyBytesSize(name, tags) + 4
  IN  dst.nil \/ Cap(dst) - dst.len < size

\* AppendSeriesKey growing dst without copying its bytes to the new array.
AppendSeriesKey_NoCopy(dst, name, tags) ==
  LET ofssz == SeriesKeyOffsetsSize(TagCount(tags))
      bytsz == SeriesKeyBytesSize(name, tags)
      size  == ofssz + bytsz + 4
      base  == IF dst.nil THEN 0 ELSE dst.len
      arr0  == IF dst.nil THEN Zeros(size)
               ELSE IF Cap(dst) - dst.len < size
                    THEN Zeros(dst.len + size)
                    ELSE dst.arr
      a1    == PutUint16(arr0, base + 0, ToUint16(ofssz))
      a2    == PutUint16(a1, base + 2, ToUint16(BLen(name)))
      a3    == PutUint16(a2, base + ofssz + 2, ToUint16(bytsz))
      a4    == Copy(a3, base + ofssz + 4, name)
      a5    == PutTags(a4, base + 4, base + ofssz + 4 + BLen(name), tags)
  IN  [nil |-> FALSE, arr |-> a5, len |-> base + size]

\* AppendSeriesKey(dst, name, tags): the returned slice.
AppendSeriesKey(dst, name, tags) ==
  LET ofssz == SeriesKeyOffsetsSize(TagCount(tags))
      bytsz == SeriesKeyBytesSize(name, tags)
      size  == ofssz + bytsz + 4
      \* out is arr[base : base+size]
      base  == IF dst.nil THEN 0 ELSE dst.len
      arr0  == IF dst.nil THEN Zeros(size)
               ELSE IF Cap(dst) - dst.len < size
                    THEN Copy(Zeros(dst.len + size), 0, Bytes(dst))
                    ELSE dst.arr
      a1    == PutUint16(arr0, base + 0, ToUint16(ofssz))
      a2    == PutUint16(a1, base + 2, ToUint16(BLen(name)))
      a3    == PutUint16(a2, base + ofssz + 2, ToUint16(bytsz))
      a4    == Copy(a3, base + ofssz + 4, name)
      a5    == PutTags(a4, base + 4, base + ofssz + 4 + BLen(name), tags)
  IN  [nil |-> FALSE, arr |-> a5, len |-> base + size]

\* ---------------------------------------------------------------- decoder

\* A models.Tags container handed to the decoder: a backing array arr of
\* [Key, Value] (cap(tags) = Len(arr)) of which the first len are the slice.
NilTags == [arr |-> << >>, len |-> 0]

ZeroTag == [Key |-> << >>, Value |-> << >>]

\* make(models.Tags, n)
MakeTags(n) == [arr |-> [i \in 1..n |-> ZeroTag], len |-> n]

GetSeriesKeyTagN(data) == (GetUint16(data, 0) - 2) \div 4

\* The loop of ParseSeriesKeyTags from tag i (0-based) on.
RECURSIVE ParseTags(_, _, _, _, _, _)
ParseTags(data, byts, tags, i, opos, bpos) ==
  IF i >= tags.len THEN tags
  ELSE LET klen == GetUint16(data, opos)
           vlen == GetUint16(data, opos + 2)
           tag  == [Key   |-> Sub(byts, bpos, bpos + klen),
                    Value |-> Sub(byts, bpos + klen, bpos + klen + vlen)]
       IN  ParseTags(data, byts,
                     [tags EXCEPT !.arr[i + 1] = tag],
                     i + 1, opos + 4, bpos + klen + vlen)

\* ParseSeriesKeyTags filling the first tagN tags of a container that is large
\* enough without cutting it to tagN: the container keeps its length.
ParseSeriesKeyTags_KeepLen(data, tags) ==
  LET ofsN == GetUint16(data, 0)
      byts == Drop(data, ofsN + 2 + 2)
      vlen == GetUint16(data, 2)
      tagN == (ofsN - 2) \div 4
      t0   == IF Len(tags.arr) < tagN THEN MakeTags(tagN)
              ELSE [tags EXCEPT !.len = tagN]
      t1   == ParseTags(data, byts, t0, 0, 4, vlen)
  IN  [name |-> Sub(byts, 0, vlen),
       tags |-> IF Len(tags.arr) < tagN THEN t1
                ELSE [t1 EXCEPT !.len = tags.len]]

\* ParseSeriesKeyTags(data, tags): the name and the tag container returned.
ParseSeriesKeyTags(data, tags) ==
  LET ofsN == GetUint16(data, 0)
      byts == Drop(data, ofsN + 2 + 2)
      vlen == GetUint16(data, 2)
      tagN == (ofsN - 2) \div 4
      t0   == IF Len(tags.arr) < tagN THEN MakeTags(tagN)
              ELSE [tags EXCEPT !.len = tagN]
  IN  [name |-> Sub(byts, 0, vlen),
       tags |-> ParseTags(data, byts, t0, 0, 4, vlen)]

ParseSeriesKey(data) == ParseSeriesKeyTags(data, NilTags)

\* The tags of a container, tags[0:len(tags)], as a tag set.
RECURSIVE TagsOf(_, _)
TagsOf(arr, n) ==
  IF n = 0 THEN << >>
  ELSE AddTag(TagsOf(arr, n - 1), arr[n].Key, arr[n].Value)

\* ------------------------------------------------------------- comparator

\* CompareSeriesKeys with the empty-key tests in the wrong order: an empty
\* first key is reported less before the second key is looked at.
CompareSeriesKeys_NilFirst(a, b) ==
  IF BLen(a) = 0 THEN -1
  ELSE IF BLen(b) = 0 THEN 1
  ELSE LET posA    == GetUint16(a, 0) + 2
           posB    == GetUint16(b, 0) + 2
           keyLenA == GetUint16(a, posA)
           keyLenB == GetUint16(b, posB)
       IN  BytesCompare(Sub(a, posA + 2, posA + 2 + keyLenA),
                        Sub(b, posB + 2, posB + 2 + keyLenB))

\* CompareSeriesKeys with the results for one empty key exchanged.
CompareSeriesKeys_NilGreater(a, b) ==
  IF BLen(a) = 0 /\ BLen(b) = 0 THEN 0
  ELSE IF BLen(a) = 0 THEN 1
  ELSE IF BLen(b) = 0 THEN -1
  ELSE LET posA    == GetUint16(a, 0) + 2
           posB    == GetUint16(b, 0) + 2
           keyLenA == GetUint16(a, posA)
           keyLenB == GetUint16(b, posB)
       IN  BytesCompare(Sub(a, posA + 2, posA + 2 + keyLenA),
                        Sub(b, posB + 2, posB + 2 + keyLenB))

\* CompareSeriesKeys taking the name length (the header at 2) for the payload
\* length: only the names are compared.
CompareSeriesKeys_NameOnly(a, b) ==
  IF BLen(a) = 0 /\ BLen(b) = 0 THEN 0
  ELSE IF BLen(a) = 0 THEN -1
  ELSE IF BLen(b) = 0 THEN 1
  ELSE LET posA    == GetUint16(a, 0) + 2
           posB    == GetUint16(b, 0) + 2
           keyLenA == GetUint16(a, 2)
           keyLenB == GetUint16(b, 2)
       IN  BytesCompare(Sub(a, posA + 2, posA + 2 + keyLenA),
                        Sub(b, posB + 2, posB + 2 + keyLenB))

CompareSeriesKeys(a, b) ==
  IF BLen(a) = 0 /\ BLen(b) = 0 THEN 0
  ELSE IF BLen(a) = 0 THEN -1
  ELSE IF BLen(b) = 0 THEN 1
  ELSE LET posA    == GetUint16(a, 0) + 2
           posB    == GetUint16(b, 0) + 2
           keyLenA == GetUint16(a, posA)
           keyLenB == GetUint16(b, posB)
       IN  BytesCompare(Sub(a, posA + 2, posA + 2 + keyLenA),
                        Sub(b, posB + 2, posB + 2 + keyLenB))

\* The header reads (GetUint16 calls) CompareSeriesKeys(a, b) makes, as
\* <<buffer, position>>.
CompareHeaderReads(a, b) ==
  IF BLen(a) = 0 \/ BLen(b) = 0 THEN {}
  ELSE { <<"a", 0>>, <<"b", 0>>,
         <<"a", GetUint16(a, 0) + 2>>, <<"b", GetUint16(b, 0) + 2>> }

\* --------------------------------------------------------- bulk generator

\* Whether SeriesKeysSize(names, tagsSlice) indexes tagsSlice out of range
\* (a run-time panic): tagsSlice[i] for every index i of names.
SeriesKeysSizePanics(names, tagsSlice) == Len(names) > Len(tagsSlice)

\* SeriesKeysSize(names, tagsSlice), the sum over the indices of names.
RECURSIVE SeriesKeysSizeTo(_, _, _)
SeriesKeysSizeTo(names, tagsSlice, k) ==
  IF k = 0 THEN 0
  ELSE SeriesKeysSizeTo(names, tagsSlice, k - 1)
         + SeriesKeySize(names[k], tagsSlice[k])

SeriesKeysSize(names, tagsSlice) ==
  SeriesKeysSizeTo(names, tagsSlice, Len(names))

\* ----------------------------------------------------------------- inputs

\* The longest field a 16-bit length can state.
MaxFieldLen == Uint16Mod - 1

\* The largest tag count whose offsets size fits 16 bits.
MaxTagN == (Uint16Mod - 1 - 2) \div 4

\* Tag sets of the small inputs have at most MaxTags tags.
MaxTags == 2

A == Str(<< 97 >>)
B == Str(<< 98 >>)
AB == Str(<< 97, 98 >>)

Names == { A }

TagPool == { [Key |-> A, Value |-> B], [Key |-> AB, Value |-> << >>] }

RECURSIVE TagSetsOfLen(_)
TagSetsOfLen(k) ==
  IF k = 0 THEN { << >> }
  ELSE { AddTag(ts, t.Key, t.Value) : ts \in TagSetsOfLen(k - 1), t \in TagPool }

TagSets == UNION { TagSetsOfLen(k) : k \in 0..MaxTags }

Id(name, tags) == [name |-> name, tags |-> tags]

SmallIds == { Id(n, ts) : n \in Names, ts \in TagSets }

\* n tags with empty key and empty value.
EmptyTags(n) == << [Key |-> << >>, Value |-> << >>, n |-> n] >>

\* Inputs at the limits of the 16-bit headers.
LongName     == Id(Run(97, MaxFieldLen), << >>)
LongPayload  == Id(Run(97, MaxFieldLen), << Tag(A, B) >>)
LongValue    == Id(A, << Tag(B, Run(97, MaxFieldLen)) >>)
OverName     == Id(Run(97, MaxFieldLen + 1), << >>)
OverKey      == Id(A, << Tag(Run(97, MaxFieldLen + 1), B) >>)
OverValue    == Id(A, << Tag(B, Run(97, MaxFieldLen + 1)) >>)
ManyTags     == Id(A, EmptyTags(MaxTagN + 1))

LimitIds ==
  { LongName, LongPayload, LongValue, OverName, OverKey, OverValue, ManyTags }

\* The empty name, and a name that differs from A in its first byte.
OtherNames == { Id(<< >>, << >>), Id(B, << >>) }

Pool == SmallIds \cup OtherNames \cup LimitIds

\* Every field of the input is at most 65535 bytes long.
Valid(id) ==
  /\ BLen(id.name) <= MaxFieldLen
  /\ \A i \in 1..Len(id.tags) :
       /\ BLen(id.tags[i].Key) <= MaxFieldLen
       /\ BLen(id.tags[i].Value) <= MaxFieldLen

\* AppendSeriesKey(nil, name, tags) as a byte string.
Encode(id) == Bytes(AppendSeriesKey(NilSlice, id.name, id.tags))

\* The payload of an input: its name bytes, then every tag's key bytes and
\* value bytes in order.
RECURSIVE TagBytes(_)
TagBytes(tags) ==
  IF tags = << >> THEN << >>
  ELSE Cat(Rep(Cat(tags[1].Key, tags[1].Value), tags[1].n), TagBytes(Tail(tags)))

Payload(id) == Cat(id.name, TagBytes(id.tags))

\* ------------------------------------------------------------------ state

VARIABLES
  \* A caller appending keys to a buffer: the buffer, the buffer before the
  \* last AppendSeriesKey, that call's input, and the number of calls.
  dst, pre, arg, apc, nApp,
  \* A caller decoding keys: the encoded input, its key, the tag container the
  \* caller holds, the last decode's result, and the number of decodes.
  pid, pkey, tagbuf, dec, ppc, nParse,
  \* A caller comparing keys: three keys a, b, c (an input or the empty key
  \* each) and the results of CompareSeriesKeys on (a,a), (a,b), (b,a), (b,c)
  \* and (a,c).
  cid, ckey, cres, cpc,
  \* A call of GenerateSeriesKeys or SeriesKeysSize: its arguments, its
  \* position, the loop index, buf, the arrays allocated, keys, and the size
  \* returned.
  gnames, gtags, gpc, gi, gbuf, gheap, gkeys, gsize

avars == << dst, pre, arg, apc, nApp >>
pvars == << pid, pkey, tagbuf, dec, ppc, nParse >>
cvars == << cid, ckey, cres, cpc >>
gvars == << gnames, gtags, gpc, gi, gbuf, gheap, gkeys, gsize >>
vars  == << avars, pvars, cvars, gvars >>

Slots == 1..3

\* The empty ("nil") key stands in a slot that holds no input.
NoKey == [nil |-> TRUE, name |-> << >>, tags |-> << >>]

NoResult == [aa |-> 0, ab |-> 0, ba |-> 0, bc |-> 0, ac |-> 0]

Init ==
  /\ dst = NilSlice /\ pre = NilSlice /\ arg = Id(<< >>, << >>)
  /\ apc = "idle" /\ nApp = 0
  /\ pid = Id(<< >>, << >>) /\ pkey = << >> /\ tagbuf = NilTags
  /\ dec = [name |-> << >>, tags |-> NilTags]
  /\ ppc = "idle" /\ nParse = 0
  /\ cid = [i \in Slots |-> NoKey] /\ ckey = [i \in Slots |-> << >>]
  /\ cres = NoResult /\ cpc = "build"
  /\ gnames = << >> /\ gtags = << >> /\ gpc = "idle" /\ gi = 0
  /\ gbuf = [arr |-> 0, len |-> 0] /\ gheap = << >> /\ gkeys = << >>
  /\ gsize = 0

\* ------------------------------------------------------- comparing keys

\* The caller encodes an input into slot i.
CEncode(i, id) ==
  /\ cpc = "build"
  /\ cid[i].nil
  /\ cid' = [cid EXCEPT ![i] = [nil |-> FALSE, name |-> id.name, tags |-> id.tags]]
  /\ ckey' = [ckey EXCEPT ![i] = Encode(id)]
  /\ UNCHANGED << cres, cpc, avars, pvars, gvars >>

\* The caller compares its keys.
CCompare ==
  /\ cpc = "build"
  /\ cres' = [aa |-> CompareSeriesKeys(ckey[1], ckey[1]),
              ab |-> CompareSeriesKeys(ckey[1], ckey[2]),
              ba |-> CompareSeriesKeys(ckey[2], ckey[1]),
              bc |-> CompareSeriesKeys(ckey[2], ckey[3]),
              ac |-> CompareSeriesKeys(ckey[1], ckey[3])]
  /\ cpc' = "compared"
  /\ UNCHANGED << cid, ckey, avars, pvars, gvars >>

NextCompare ==
  \/ \E i \in Slots, id \in Pool : CEncode(i, id)
  \/ CCompare

SpecCompare == Init /\ [][NextCompare]_vars

\* The input in slot i has every field within 65535 bytes.
CValid(i) == ~cid[i].nil /\ Valid(cid[i])

\* The input in slot i has a payload and a tag count its 16-bit headers state
\* exactly.
CFits(i) ==
  /\ CValid(i)
  /\ TagCount(cid[i].tags) <= MaxTagN
  /\ BLen(Payload(cid[i])) <= MaxFieldLen

\* C2: for two non-empty keys a, b from valid inputs, CompareSeriesKeys(a, b)
\* is the sign of the lexicographic comparison of the complete payloads, and
\* the payloadSize header the comparator reads is the payload's length.
C2_ComparesPayloads ==
  (cpc = "compared" /\ CValid(1) /\ CValid(2)) =>
    /\ cres.ab = BytesCompare(Payload(cid[1]), Payload(cid[2]))
    /\ GetUint16(ckey[1], GetUint16(ckey[1], 0) + 2) = BLen(Payload(cid[1]))

\* C3: over the empty key and the encoder's keys, CompareSeriesKeys returns
\* -1, 0 or 1, Compare(a, a) = 0, Compare(a, b) = -Compare(b, a), and
\* Compare(a, b) <= 0 and Compare(b, c) <= 0 give Compare(a, c) <= 0; a
\* repeated call returns the recorded result.
C3_OrderLaws ==
  cpc = "compared" =>
    /\ \A f \in DOMAIN cres : cres[f] \in {-1, 0, 1}
    /\ cres.aa = 0
    /\ cres.ab = -cres.ba
    /\ (cres.ab <= 0 /\ cres.bc <= 0) => cres.ac <= 0
    /\ cres.ab = CompareSeriesKeys(ckey[1], ckey[2])

\* Three encoded keys in a strictly increasing chain.
C3_Witness ==
  /\ cpc = "compared"
  /\ ~cid[1].nil /\ ~cid[2].nil /\ ~cid[3].nil
  /\ cres.ab = -1 /\ cres.bc = -1 /\ cres.ac = -1 /\ cres.ba = 1

\* C4 as stated, on the valid inputs whose payload and tag count their
\* headers state exactly: two keys compare equal only if they encode the same
\* name and the same tags.
C4_EqualOnlyIfSameIdentity ==
  (cpc = "compared" /\ CFits(1) /\ CFits(2) /\ cres.ab = 0) => cid[1] = cid[2]

\* C4 amended: keys of the same valid input compare equal, and two keys whose
\* payload and tag count fit their headers compare equal exactly when their
\* concatenated payloads are byte-equal, whatever the field boundaries.
C4_EqualIffSamePayload ==
  cpc = "compared" =>
    /\ (CValid(1) /\ CValid(2) /\ cid[1] = cid[2]) => cres.ab = 0
    /\ (CFits(1) /\ CFits(2)) =>
         (cres.ab = 0 <=> Payload(cid[1]) = Payload(cid[2]))

\* Two different inputs with the same concatenated payload compare equal.
C4_Witness ==
  /\ cpc = "compared"
  /\ CFits(1) /\ CFits(2)
  /\ cid[1] # cid[2]
  /\ ckey[1] # ckey[2]
  /\ cres.ab = 0

\* C5: CompareSeriesKeys is 0 on two empty keys, -1 when only the first is
\* empty and 1 when only the second is, and reads no header in these cases.
C5_NilKeyOrdering ==
  cpc = "compared" =>
    /\ (BLen(ckey[1]) = 0 /\ BLen(ckey[2]) = 0) => (cres.ab = 0 /\ cres.ba = 0)
    /\ (BLen(ckey[1]) = 0 /\ BLen(ckey[2]) > 0) => (cres.ab = -1 /\ cres.ba = 1)
    /\ (BLen(ckey[1]) > 0 /\ BLen(ckey[2]) = 0) => (cres.ab = 1 /\ cres.ba = -1)
    /\ (BLen(ckey[1]) = 0 \/ BLen(ckey[2]) = 0) =>
         CompareHeaderReads(ckey[1], ckey[2]) = {}

\* The empty key compared with an encoded key, both ways, and with itself.
C5_Witness ==
  /\ cpc = "compared"
  /\ cid[1].nil /\ ~cid[2].nil
  /\ cres.ab = -1 /\ cres.ba = 1 /\ cres.aa = 0

\* ------------------------------------------------------- appending keys

\* At most MaxAppends keys are appended to one buffer.
MaxAppends == 2

\* The capacities the caller makes a destination with: none, room for the
\* smallest key and one byte, room for two keys exactly.
DstCaps == { 0, 7, 32 }

AppendPool ==
  { Id(<< >>, << >>), Id(A, << Tag(A, B) >>),
    Id(A, << Tag(AB, << >>), Tag(A, B) >>),
    LongName, LongValue, OverName, OverValue }

\* The caller makes an empty destination of capacity c: make([]byte, 0, c).
AMake(c) ==
  /\ nApp = 0 /\ dst.nil
  /\ dst' = MakeSlice(0, c)
  /\ UNCHANGED << pre, arg, apc, nApp, pvars, cvars, gvars >>

\* The caller cuts the buffer back to k bytes, dst[:k]; the bytes cut stay in
\* its spare capacity.
AReslice(k) ==
  /\ apc = "appended" /\ k < dst.len
  /\ dst' = [dst EXCEPT !.len = k]
  /\ apc' = "idle"
  /\ UNCHANGED << pre, arg, nApp, pvars, cvars, gvars >>

\* dst = AppendSeriesKey(dst, name, tags)
AAppend(id) ==
  /\ nApp < MaxAppends
  /\ pre' = dst
  /\ arg' = id
  /\ dst' = AppendSeriesKey(dst, id.name, id.tags)
  /\ apc' = "appended"
  /\ nApp' = nApp + 1
  /\ UNCHANGED << pvars, cvars, gvars >>

NextAppend ==
  \/ \E c \in DstCaps : AMake(c)
  \/ \E k \in { 0, pre.len } : AReslice(k)
  \/ \E id \in AppendPool : AAppend(id)

SpecAppend == Init /\ [][NextAppend]_vars

\* The key the last AppendSeriesKey wrote: the bytes it added to dst.
LastKey == Sub(dst.arr, pre.len, dst.len)

\* C7: a name, tag key or tag value of exactly 65535 bytes is encoded; one
\* longer is rejected before any byte is written, and no length is wrapped
\* into a 16-bit header field.
C7_SizeLimit ==
  apc = "appended" =>
    /\ Valid(arg) => dst.len = pre.len + SeriesKeySize(arg.name, arg.tags)
    /\ ~Valid(arg) => dst = pre
    /\ GetUint16(LastKey, 2) = BLen(arg.name)
    /\ TagCount(arg.tags) = Len(arg.tags) =>
         \A i \in 1..Len(arg.tags) :
           /\ GetUint16(LastKey, 4 * i) = BLen(arg.tags[i].Key)
           /\ GetUint16(LastKey, 4 * i + 2) = BLen(arg.tags[i].Value)

\* C9: for every destination and every valid input, AppendSeriesKey returns
\* a buffer of length len(dst) + SeriesKeySize whose first len(dst) bytes are
\* those of dst before the call and whose other bytes are
\* AppendSeriesKey(nil, name, tags).
C9_AppendSemantics ==
  (apc = "appended" /\ Valid(arg)) =>
    /\ ~dst.nil
    /\ dst.len = pre.len + SeriesKeySize(arg.name, arg.tags)
    /\ dst.len <= Cap(dst)
    /\ Take(dst.arr, pre.len) = Bytes(pre)
    /\ LastKey = Encode(arg)

\* A key appended after earlier bytes to a buffer whose spare capacity was
\* too small: the buffer was grown and copied.
C9_Witness ==
  /\ apc = "appended" /\ Valid(arg)
  /\ pre.len > 0
  /\ Cap(pre) - pre.len > 0
  /\ Cap(pre) - pre.len < SeriesKeySize(arg.name, arg.tags)
  /\ Cap(dst) = dst.len

\* -------------------------------------------------------- decoding keys

\* At most MaxParses keys are decoded with one tag container.
MaxParses == 2

\* The caller makes a tag container: make(models.Tags, c).
PMakeTags(c) ==
  /\ nParse = 0 /\ ppc = "idle" /\ tagbuf = NilTags
  /\ tagbuf' = MakeTags(c)
  /\ UNCHANGED << pid, pkey, dec, ppc, nParse, avars, cvars, gvars >>

\* The inputs decoded: every small tag set, the empty input, and the inputs at
\* the limits of a tag's lengths, of the payload size and of the tag count.
ParsePool ==
  SmallIds \cup { Id(<< >>, << >>), LongPayload, LongValue, OverValue, ManyTags }

NoDecode == [name |-> << >>, tags |-> NilTags]

\* The caller encodes an input, AppendSeriesKey(nil, name, tags), and drops
\* the result of its last decode.
PEncode(id) ==
  /\ ppc # "encoded" /\ nParse < MaxParses
  /\ pid' = id
  /\ pkey' = Encode(id)
  /\ dec' = NoDecode
  /\ ppc' = "encoded"
  /\ UNCHANGED << tagbuf, nParse, avars, cvars, gvars >>

\* name, tags := ParseSeriesKey(key)
PParse ==
  /\ ppc = "encoded"
  /\ dec' = ParseSeriesKey(pkey)
  /\ ppc' = "fresh"
  /\ nParse' = nParse + 1
  /\ UNCHANGED << pid, pkey, tagbuf, avars, cvars, gvars >>

\* name, tags := ParseSeriesKeyTags(key, tagbuf).  The caller goes on with
\* the container returned (keep), or with the one it passed, whose backing
\* array the decoder has written when it was large enough.
PParseTags(keep) ==
  /\ ppc = "encoded"
  /\ LET r == ParseSeriesKeyTags(pkey, tagbuf)
     IN  /\ dec' = r
         /\ tagbuf' = IF keep THEN r.tags
                      ELSE IF Len(tagbuf.arr) < r.tags.len THEN tagbuf
                      ELSE [tagbuf EXCEPT !.arr = r.tags.arr]
  /\ ppc' = "reused"
  /\ nParse' = nParse + 1
  /\ UNCHANGED << pid, pkey, avars, cvars, gvars >>

NextParse ==
  \/ \E c \in { 1, MaxTags + 1 } : PMakeTags(c)
  \/ \E id \in ParsePool : PEncode(id)
  \/ PParse
  \/ \E keep \in BOOLEAN : PParseTags(keep)

SpecParse == Init /\ [][NextParse]_vars

\* The tags a decode returned, tags[0:len(tags)].
Decoded(r) == TagsOf(r.tags.arr, r.tags.len)

\* C1: ParseSeriesKey(AppendSeriesKey(nil, name, tags)) returns the name and
\* the tags encoded, with the same tag count and order, for every input with
\* fields of at most 65535 bytes and any number of tags.
C1_RoundTrip ==
  (ppc = "fresh" /\ Valid(pid)) =>
    /\ dec.name = pid.name
    /\ dec.tags.len = TagCount(pid.tags)
    /\ Decoded(dec) = pid.tags

\* C10: a decode into a container of any capacity and prior content returns
\* the name and tags ParseSeriesKey returns on the same key, in a container
\* whose length is the key's tag count.
C10_ReuseEqualsFresh ==
  ppc = "reused" =>
    LET f == ParseSeriesKey(pkey)
    IN  /\ dec.name = f.name
        /\ dec.tags.len = f.tags.len
        /\ dec.tags.len = GetSeriesKeyTagN(pkey)
        /\ dec.tags.len <= Len(dec.tags.arr)
        /\ SubSeq(dec.tags.arr, 1, dec.tags.len)
             = SubSeq(f.tags.arr, 1, f.tags.len)

\* A key of fewer tags decoded into a container that holds the tags of an
\* earlier decode: its capacity is kept, and what is past the new length is
\* left over from the earlier key.
C10_Witness ==
  /\ ppc = "reused" /\ nParse = 2
  /\ dec.tags.len > 0
  /\ dec.tags.len < Len(dec.tags.arr)
  /\ dec.tags.arr[dec.tags.len + 1] # ZeroTag

\* ------------------------------------------------------ generating keys

\* The lists handed to GenerateSeriesKeys have at most MaxBulk entries.
MaxBulk == 2

BulkNames == { << >>, A, Run(97, MaxFieldLen) }

BulkTags == { << >>, << Tag(A, B) >>, << Tag(AB, << >>), Tag(A, B) >> }

RECURSIVE ListsOfLen(_, _)
ListsOfLen(S, k) ==
  IF k = 0 THEN { << >> }
  ELSE { Append(l, e) : l \in ListsOfLen(S, k - 1), e \in S }

Lists(S) == UNION { ListsOfLen(S, k) : k \in 0..MaxBulk }

\* An entry of keys not yet assigned: a nil []byte.
NilKey == [arr |-> 0, off |-> 0, len |-> 0]

\* n := SeriesKeysSize(names, tagsSlice), called by itself.
SCall(names, tagsSlice) ==
  /\ gpc = "idle"
  /\ gnames' = names /\ gtags' = tagsSlice
  /\ IF SeriesKeysSizePanics(names, tagsSlice)
     THEN gpc' = "panic" /\ gsize' = gsize
     ELSE gpc' = "sized" /\ gsize' = SeriesKeysSize(names, tagsSlice)
  /\ UNCHANGED << gi, gbuf, gheap, gkeys, avars, pvars, cvars >>

\* GenerateSeriesKeys(names, tagsSlice) up to its loop: buf is made with the
\* capacity SeriesKeysSize returns, keys with len(names) nil entries.
GCall(names, tagsSlice) ==
  /\ gpc = "idle"
  /\ gnames' = names /\ gtags' = tagsSlice
  /\ IF SeriesKeysSizePanics(names, tagsSlice)
     THEN /\ gpc' = "panic"
          /\ UNCHANGED << gi, gbuf, gheap, gkeys, gsize >>
     ELSE /\ gpc' = "loop"
          /\ gsize' = SeriesKeysSize(names, tagsSlice)
          /\ gheap' = << Zeros(SeriesKeysSize(names, tagsSlice)) >>
          /\ gbuf' = [arr |-> 1, len |-> 0]
          /\ gkeys' = [i \in 1..Len(names) |-> NilKey]
          /\ gi' = 0
  /\ UNCHANGED << avars, pvars, cvars >>

\* One pass of the loop of GenerateSeriesKeys.  An append that allocates
\* leaves the old array, and the keys that view it, as they are.
GStep ==
  /\ gpc = "loop" /\ gi < Len(gnames)
  /\ IF gi + 1 > Len(gtags)
     THEN /\ gpc' = "panic"
          /\ UNCHANGED << gi, gbuf, gheap, gkeys >>
     ELSE LET buf    == [nil |-> FALSE, arr |-> gheap[gbuf.arr], len |-> gbuf.len]
              offset == gbuf.len
              out    == AppendSeriesKey(buf, gnames[gi + 1], gtags[gi + 1])
              fresh  == AppendAllocates(buf, gnames[gi + 1], gtags[gi + 1])
              at     == IF fresh THEN Len(gheap) + 1 ELSE gbuf.arr
          IN  /\ gheap' = IF fresh THEN Append(gheap, out.arr)
                          ELSE [gheap EXCEPT ![gbuf.arr] = out.arr]
              /\ gbuf' = [arr |-> at, len |-> out.len]
              /\ gkeys' = [gkeys EXCEPT ![gi + 1] =
                             [arr |-> at, off |-> offset, len |-> out.len - offset]]
              /\ gi' = gi + 1
              /\ gpc' = "loop"
  /\ UNCHANGED << gnames, gtags, gsize, avars, pvars, cvars >>

\* return keys
GReturn ==
  /\ gpc = "loop" /\ gi = Len(gnames)
  /\ gpc' = "done"
  /\ UNCHANGED << gnames, gtags, gi, gbuf, gheap, gkeys, gsize, avars, pvars, cvars >>

NextBulk ==
  \/ \E names \in Lists(BulkNames), tagsSlice \in Lists(BulkTags) :
       SCall(names, tagsSlice)
  \/ \E names \in Lists(BulkNames), tagsSlice \in Lists(BulkTags) :
       GCall(names, tagsSlice)
  \/ GStep
  \/ GReturn

SpecBulk == Init /\ [][NextBulk]_vars

\* The bytes of keys[j], read from the array it views.
KeyBytes(j) ==
  Sub(gheap[gkeys[j].arr], gkeys[j].off, gkeys[j].off + gkeys[j].len)

\* The sizes of the first k keys.
RECURSIVE KeysLen(_)
KeysLen(k) == IF k = 0 THEN 0 ELSE KeysLen(k - 1) + gkeys[k].len

\* C6: for lists of equal length, every key GenerateSeriesKeys has assigned
\* is, then and at every later point of the call, byte-for-byte
\* AppendSeriesKey(nil, names[i], tagsSlice[i]); the keys lie one after the
\* other in the one array made at the start, which is full at the return.
C6_BulkEquivalence ==
  (gpc \in { "loop", "done" } /\ Len(gnames) = Len(gtags)) =>
    /\ Len(gheap) = 1
    /\ gbuf.arr = 1
    /\ gbuf.len = KeysLen(gi)
    /\ \A j \in 1..gi :
         /\ KeyBytes(j) = Encode(Id(gnames[j], gtags[j]))
         /\ gkeys[j].arr = 1
         /\ gkeys[j].off = KeysLen(j - 1)
    /\ gpc = "done" => (gi = Len(gnames) /\ gbuf.len = BLen(gheap[1]))

\* Two different keys generated into one buffer.
C6_Witness ==
  /\ gpc = "done"
  /\ Len(gnames) = 2 /\ Len(gtags) = 2
  /\ KeyBytes(1) # KeyBytes(2)
  /\ gkeys[2].off > 0

\* C8: a call of GenerateSeriesKeys or SeriesKeysSize with lists of unequal
\* length is rejected up front: it neither indexes past the shorter list nor
\* returns a result computed from part of the longer one.
C8_MismatchRejected ==
  (gpc # "idle" /\ Len(gnames) # Len(gtags)) => gpc = "rejected"

====
